---- MODULE Spec2Model ----
(***************************************************************************)
(* Model of validate-config.py: the Aalay configuration validator.         *)
(*                                                                         *)
(* A run is one invocation of main(): the constructor, the seven checks of *)
(* validate_all in their call order, the report and the process exit.      *)
(* The project root is read-only input: which paths exist, and the         *)
(* contents of .env and app/google-services.json.                          *)
(*                                                                         *)
(* The text of .env is modelled as a sequence of tokens.  Every token is   *)
(* either a single character that the code inspects (space, newline, '#',  *)
(* '=') or a word that contains none of these characters, and no two       *)
(* tokens start with the same character, so two texts are equal as strings *)
(* exactly when they are equal as token sequences.  The text of            *)
(* google-services.json is a sequence of JSON tokens.                      *)
(*                                                                         *)
(* An exception is modelled by the name of its class: an operator that     *)
(* models code which can raise returns either its result or the exception, *)
(* and the action of the enclosing method either handles it, as its except *)
(* clauses do, or ends the run with it.                                    *)
(*                                                                         *)
(* Path.exists() is modelled as a total boolean function of the path.      *)
(***************************************************************************)
EXTENDS Integers, Sequences, FiniteSets, TLC

VARIABLES pc, fs, envFile, credFile, errors, warnings, info, ran,
          success, success_rate, exit_code

vars == <<pc, fs, envFile, credFile, errors, warnings, info, ran,
          success, success_rate, exit_code>>

(***************************************************************************)
(* Bounds of the explored inputs.                                          *)
(***************************************************************************)
MaxEnvTokens == 3
MaxEnvLines == 2
MaxJsonTokens == 2
MaxMissing == 1
MaxAbsent == 4

(***************************************************************************)
(* Fixed paths and names of the program.                                   *)
(***************************************************************************)
env_file == ".env"
env_template == ".env.template"
google_services == "app/google-services.json"
google_services_template == "app/google-services.json.template"

required_vars == <<"API_BASE_URL_PROD", "MAPBOX_ACCESS_TOKEN_PROD",
                   "FIREBASE_PROJECT_ID_PROD">>

placeholder_values == { <<>>, <<"your_placeholder_value">>, <<"placeholder">> }

required_files == <<"build.gradle", "app/build.gradle", "settings.gradle",
                    "gradle.properties", "env-loader.gradle">>

security_files == <<"app/src/main/res/xml/network_security_config.xml",
                    "app/src/main/res/xml/backup_rules.xml",
                    "app/src/main/res/xml/data_extraction_rules.xml",
                    "app/proguard-rules.pro">>

critical_files == <<"utils/ConfigManager.kt", "utils/SecurityConfig.kt",
                    "di/NetworkModule.kt", "AalayApplication.kt">>

doc_files == <<"README.md", "DEPLOYMENT.md", ".gitignore">>

ci_files == <<".github/workflows/android-ci.yml">>

known_project_id == "aalay-student-housing"

Range(s) == { s[i] : i \in 1..Len(s) }

ListedPaths == Range(required_files) \cup Range(security_files)
               \cup Range(critical_files) \cup Range(doc_files)
               \cup Range(ci_files)

ConfigPaths == {env_file, env_template, google_services,
                google_services_template}

AllPaths == ListedPaths \cup ConfigPaths

(***************************************************************************)
(* Messages.  A message is the format string of the code together with the *)
(* text substituted into it (arg) or the number substituted into it (n).   *)
(***************************************************************************)
Msg(text, arg) == [text |-> text, arg |-> arg, n |-> 0]

MsgN(text, n) == [text |-> text, arg |-> "", n |-> n]

(***************************************************************************)
(* str.strip() on a token text: whitespace is the tokens " " and "\n".     *)
(***************************************************************************)
IsSpace(t) == t \in {" ", "\n"}

RECURSIVE LStrip(_)
LStrip(s) == IF s # <<>> /\ IsSpace(Head(s)) THEN LStrip(Tail(s)) ELSE s

RECURSIVE RStrip(_)
RStrip(s) == IF s # <<>> /\ IsSpace(s[Len(s)])
             THEN RStrip(SubSeq(s, 1, Len(s) - 1)) ELSE s

Strip(s) == RStrip(LStrip(s))

(***************************************************************************)
(* Iterating a text file yields its lines, each with its newline.          *)
(***************************************************************************)
RECURSIVE FirstIndex(_, _, _)
FirstIndex(s, t, i) == IF i > Len(s) THEN 0
                       ELSE IF s[i] = t THEN i ELSE FirstIndex(s, t, i + 1)

RECURSIVE FileLines(_)
FileLines(text) ==
    IF text = <<>> THEN <<>>
    ELSE LET nl == FirstIndex(text, "\n", 1)
         IN  IF nl = 0 THEN <<text>>
             ELSE <<SubSeq(text, 1, nl)>>
                  \o FileLines(SubSeq(text, nl + 1, Len(text)))

(***************************************************************************)
(* The body of the read loop of validate_env_file: one line updates the    *)
(* dictionary env_vars (a function from keys to values).                   *)
(***************************************************************************)
DictSet(d, k, v) == [x \in DOMAIN d \cup {k} |-> IF x = k THEN v ELSE d[x]]

EmptyDict == [x \in {} |-> <<>>]

\* the read loop without value.strip()
ParseLine_unstripped(env_vars, rawline) ==
    LET line == Strip(rawline)
        eq == FirstIndex(line, "=", 1)
    IN  IF line # <<>> /\ Head(line) # "#" /\ eq # 0
        THEN DictSet(env_vars,
                     Strip(SubSeq(line, 1, eq - 1)),
                     SubSeq(line, eq + 1, Len(line)))
        ELSE env_vars

ParseLine(env_vars, rawline) ==
    LET line == Strip(rawline)
        eq == FirstIndex(line, "=", 1)
    IN  IF line # <<>> /\ Head(line) # "#" /\ eq # 0
        THEN DictSet(env_vars,
                     Strip(SubSeq(line, 1, eq - 1)),
                     Strip(SubSeq(line, eq + 1, Len(line))))
        ELSE env_vars

RECURSIVE ParseLines(_, _)
ParseLines(env_vars, lines) ==
    IF lines = <<>> THEN env_vars
    ELSE ParseLines(ParseLine(env_vars, Head(lines)), Tail(lines))

ParseEnv(text) == ParseLines(EmptyDict, FileLines(text))

(***************************************************************************)
(* The loop over required_vars of validate_env_file.                       *)
(***************************************************************************)
\* the loop over required_vars leaving at its first warning
CheckRequired_break(env_vars, vs) ==
    IF vs = <<>> THEN <<>>
    ELSE IF <<Head(vs)>> \notin DOMAIN env_vars
         THEN <<Msg("Required variable {var} not found in .env", Head(vs))>>
         ELSE <<>>

RECURSIVE CheckRequired(_, _)
CheckRequired(env_vars, vs) ==
    IF vs = <<>> THEN <<>>
    ELSE LET var == Head(vs)
             w == IF <<var>> \notin DOMAIN env_vars
                  THEN <<Msg("Required variable {var} not found in .env", var)>>
                  ELSE IF env_vars[<<var>>] \in placeholder_values
                       THEN <<Msg("Variable {var} has placeholder value", var)>>
                       ELSE <<>>
         IN  w \o CheckRequired(env_vars, Tail(vs))

(***************************************************************************)
(* The presence loops: one message per listed path.                        *)
(***************************************************************************)
\* a presence loop leaving at the first missing path
RECURSIVE FoundMsgs_break(_, _)
FoundMsgs_break(f, paths) ==
    IF paths = <<>> \/ ~f[Head(paths)] THEN <<>>
    ELSE <<Msg("found: {file_path}", Head(paths))>>
         \o FoundMsgs_break(f, Tail(paths))

RECURSIVE FoundMsgs(_, _)
FoundMsgs(f, paths) ==
    IF paths = <<>> THEN <<>>
    ELSE (IF f[Head(paths)] THEN <<Msg("found: {file_path}", Head(paths))>>
          ELSE <<>>) \o FoundMsgs(f, Tail(paths))

RECURSIVE MissingMsgs(_, _, _)
MissingMsgs(f, paths, text) ==
    IF paths = <<>> THEN <<>>
    ELSE (IF f[Head(paths)] THEN <<>> ELSE <<Msg(text, Head(paths))>>)
         \o MissingMsgs(f, Tail(paths), text)

(***************************************************************************)
(* JSON values as json.load builds them.  A dict keeps its keys in         *)
(* insertion order; assigning an existing key replaces its value in place. *)
(***************************************************************************)
JStr(s) == [t |-> "str", s |-> s]

JNum(n) == [t |-> "num", n |-> n]

JNull == [t |-> "null"]

JTrue == [t |-> "true"]

JArr(items) == [t |-> "arr", items |-> items]

JObj(members) == [t |-> "obj", members |-> members]

Member(k, v) == [key |-> k, val |-> v]

HasKey(members, k) == \E i \in 1..Len(members) : members[i].key = k

GetKey(members, k) ==
    members[CHOOSE i \in 1..Len(members) : members[i].key = k].val

PutKey(members, k, v) ==
    IF HasKey(members, k)
    THEN [i \in 1..Len(members) |->
             IF members[i].key = k THEN Member(k, v) ELSE members[i]]
    ELSE Append(members, Member(k, v))

(***************************************************************************)
(* JSON text: a sequence of tokens, each a punctuation character, a string *)
(* literal, a number literal or one of the literals null and true.         *)
(***************************************************************************)
P(c) == [k |-> "punct", v |-> c]

S(str) == [k |-> "string", v |-> str]

N(digits) == [k |-> "number", v |-> digits]

L(word) == [k |-> "literal", v |-> word]

\* the one-character string U+D800, written "\ud800" in JSON text
LoneSurrogate == "<U+D800>"

ParseFail == [ok |-> FALSE, val |-> JNull, next |-> 0]

ParseOk(v, next) == [ok |-> TRUE, val |-> v, next |-> next]

RECURSIVE ParseValue(_, _), ParseItems(_, _, _), ParseMembers(_, _, _)
ParseValue(toks, i) ==
    IF i > Len(toks) THEN ParseFail
    ELSE LET tk == toks[i]
         IN  CASE tk.k = "string" -> ParseOk(JStr(tk.v), i + 1)
               [] tk.k = "number" ->
                      ParseOk(JNum(IF tk.v = "0" THEN 0 ELSE 1), i + 1)
               [] tk.k = "literal" ->
                      ParseOk(IF tk.v = "null" THEN JNull ELSE JTrue, i + 1)
               [] tk = P("[") ->
                      IF i + 1 <= Len(toks) /\ toks[i + 1] = P("]")
                      THEN ParseOk(JArr(<<>>), i + 2)
                      ELSE ParseItems(toks, i + 1, <<>>)
               [] tk = P("{") ->
                      IF i + 1 <= Len(toks) /\ toks[i + 1] = P("}")
                      THEN ParseOk(JObj(<<>>), i + 2)
                      ELSE ParseMembers(toks, i + 1, <<>>)
               [] OTHER -> ParseFail

ParseItems(toks, i, acc) ==
    LET r == ParseValue(toks, i)
    IN  IF ~r.ok \/ r.next > Len(toks) THEN ParseFail
        ELSE IF toks[r.next] = P(",")
             THEN ParseItems(toks, r.next + 1, Append(acc, r.val))
             ELSE IF toks[r.next] = P("]")
                  THEN ParseOk(JArr(Append(acc, r.val)), r.next + 1)
                  ELSE ParseFail

ParseMembers(toks, i, acc) ==
    IF i + 1 > Len(toks) \/ toks[i].k # "string" \/ toks[i + 1] # P(":")
    THEN ParseFail
    ELSE LET r == ParseValue(toks, i + 2)
         IN  IF ~r.ok \/ r.next > Len(toks) THEN ParseFail
             ELSE IF toks[r.next] = P(",")
                  THEN ParseMembers(toks, r.next + 1,
                                    PutKey(acc, toks[i].v, r.val))
                  ELSE IF toks[r.next] = P("}")
                       THEN ParseOk(JObj(PutKey(acc, toks[i].v, r.val)),
                                    r.next + 1)
                       ELSE ParseFail

\* json.load: the whole text must be one value; anything else raises
\* JSONDecodeError.
JsonLoad(toks) ==
    LET r == ParseValue(toks, 1)
    IN  IF r.ok /\ r.next = Len(toks) + 1 THEN r ELSE ParseFail

(***************************************************************************)
(* Python operations that validate_firebase_config applies to the value.   *)
(***************************************************************************)
\* needle in s, for two strings
Contains(s, needle) ==
    \/ s = needle
    \/ <<s, needle>> \in { <<"project_info client", "project_info">>,
                           <<"project_info client", "client">> }

\* whether `needle in config` raises TypeError
InRaises(config) == config.t \notin {"obj", "arr", "str"}

PyIn(needle, config) ==
    CASE config.t = "obj" -> HasKey(config.members, needle)
      [] config.t = "arr" ->
             \E i \in 1..Len(config.items) : config.items[i] = JStr(needle)
      [] config.t = "str" -> Contains(config.s, needle)
      [] OTHER -> FALSE

Truthy(v) ==
    CASE v.t = "str" -> v.s # ""
      [] v.t = "num" -> v.n # 0
      [] v.t = "null" -> FALSE
      [] v.t = "true" -> TRUE
      [] v.t = "arr" -> v.items # <<>>
      [] v.t = "obj" -> v.members # <<>>

\* the comparison of line 81 reversed
IsConfigured_equal(project_id) ==
    Truthy(project_id) /\ project_id = JStr(known_project_id)

\* the condition of line 81
IsConfigured(project_id) ==
    Truthy(project_id) /\ project_id # JStr(known_project_id)

RECURSIVE PyRepr(_), ReprItems(_), ReprMembers(_)
PyRepr(v) ==
    CASE v.t = "str" -> IF v.s = LoneSurrogate THEN "'\\ud800'"
                        ELSE "'" \o v.s \o "'"
      [] v.t = "num" -> IF v.n = 0 THEN "0" ELSE "1"
      [] v.t = "null" -> "None"
      [] v.t = "true" -> "True"
      [] v.t = "arr" -> "[" \o ReprItems(v.items) \o "]"
      [] v.t = "obj" -> "{" \o ReprMembers(v.members) \o "}"

ReprItems(items) ==
    IF items = <<>> THEN ""
    ELSE IF Len(items) = 1 THEN PyRepr(items[1])
         ELSE PyRepr(items[1]) \o ", " \o ReprItems(Tail(items))

ReprMembers(members) ==
    IF members = <<>> THEN ""
    ELSE LET m == "'" \o members[1].key \o "': " \o PyRepr(members[1].val)
         IN  IF Len(members) = 1 THEN m
             ELSE m \o ", " \o ReprMembers(Tail(members))

\* str(v), as the f-string of the info message formats the project id
PyStr(v) == IF v.t = "str" THEN v.s ELSE PyRepr(v)

\* The checks after json.load, lines 79-86.  The result is the message
\* recorded and the list it goes to, or the exception raised: `in` on a value
\* that is not a container, a string subscript on a list or a string, and
\* .get on a value that is not a dict.
Recorded(list, msg) == [list |-> list, msg |-> msg, raised |-> ""]

\* an exception leaving the code, by the name of its class
Raise(exc) == [list |-> "none", msg |-> Msg("", ""), raised |-> exc]

CheckStructure(config) ==
    IF InRaises(config) THEN Raise("TypeError")
    ELSE IF PyIn("project_info", config) /\ PyIn("client", config)
    THEN IF config.t # "obj" THEN Raise("TypeError")
         ELSE LET project_info == GetKey(config.members, "project_info")
              IN  IF project_info.t # "obj" THEN Raise("AttributeError")
                  ELSE LET project_id ==
                               IF HasKey(project_info.members, "project_id")
                               THEN GetKey(project_info.members, "project_id")
                               ELSE JStr("")
                       IN  IF IsConfigured(project_id)
                           THEN Recorded("info",
                                    Msg("Firebase project ID: {project_id}",
                                        PyStr(project_id)))
                           ELSE Recorded("warnings",
                                    Msg("Firebase project_id appears to be a placeholder", ""))
    ELSE Recorded("warnings", Msg("google-services.json has invalid structure", ""))

(***************************************************************************)
(* validate_env_file                                                       *)
(***************************************************************************)
Record(list, outcome, name) ==
    IF outcome.list = name THEN Append(list, outcome.msg) ELSE list

\* both branches of lines 25-28 recording a warning
NoEnvFile_warning(template_exists) ==
    Recorded("warnings", Msg("No .env file found. Copy .env.template to .env", ""))

NoEnvFile(template_exists) ==
    IF template_exists
    THEN Recorded("warnings", Msg("No .env file found. Copy .env.template to .env", ""))
    ELSE Recorded("errors", Msg("Neither .env nor .env.template file found!", ""))

\* the try statement, lines 41-50: any exception of open or of reading is
\* caught and reported
ReadEnvFile(file) ==
    IF file.readable
    THEN [caught |-> FALSE, env_vars |-> ParseEnv(file.text)]
    ELSE [caught |-> TRUE, env_vars |-> EmptyDict]

validate_env_file ==
    /\ pc = "validate_env_file"
    /\ IF ~fs[env_file]
       THEN LET c == NoEnvFile(fs[env_template])
            IN  /\ warnings' = Record(warnings, c, "warnings")
                /\ errors' = Record(errors, c, "errors")
                /\ UNCHANGED info
       ELSE LET rd == ReadEnvFile(envFile)
            IN  IF rd.caught
                THEN /\ info' = Append(info, Msg(".env file found", ""))
                     /\ errors' = Append(errors,
                                         Msg("Error reading .env file: {e}", ""))
                     /\ UNCHANGED warnings
                ELSE /\ warnings' = warnings
                                    \o CheckRequired(rd.env_vars, required_vars)
                     /\ info' = info \o <<Msg(".env file found", ""),
                                   MsgN("Found {n} environment variables",
                                        Cardinality(DOMAIN rd.env_vars))>>
                     /\ UNCHANGED errors
    /\ ran' = Append(ran, "validate_env_file")
    /\ pc' = "validate_firebase_config"
    /\ UNCHANGED <<fs, envFile, credFile, success, success_rate, exit_code>>

(***************************************************************************)
(* validate_firebase_config                                                *)
(***************************************************************************)
\* a missing credential file without template recorded as an error
NoCredential_error(template_exists) ==
    IF template_exists
    THEN Recorded("warnings", Msg("No google-services.json found. Copy template", ""))
    ELSE Recorded("errors", Msg("No Firebase configuration found!", ""))

NoCredential(template_exists) ==
    IF template_exists
    THEN Recorded("warnings", Msg("No google-services.json found. Copy template", ""))
    ELSE Recorded("warnings", Msg("No Firebase configuration found!", ""))

\* the body of the try statement, lines 76-86
TryValidate(file) ==
    IF ~file.readable THEN Raise("OSError")
    ELSE LET r == JsonLoad(file.text)
         IN  IF ~r.ok THEN Raise("JSONDecodeError") ELSE CheckStructure(r.val)

\* only `except json.JSONDecodeError`: every other exception leaves
ExceptClauses_narrow(outcome) ==
    IF outcome.raised = "JSONDecodeError"
    THEN Recorded("errors", Msg("google-services.json is not valid JSON", ""))
    ELSE outcome

\* `except Exception` placed first: it also takes JSONDecodeError
ExceptClauses_swapped(outcome) ==
    IF outcome.raised = "" THEN outcome
    ELSE Recorded("warnings",
                  Msg("Could not validate google-services.json: {e}", ""))

\* every caught exception recorded as an error
ExceptClauses_error(outcome) ==
    IF outcome.raised = "" THEN outcome
    ELSE Recorded("errors", Msg("google-services.json is not valid JSON", ""))

\* the except clauses, lines 88-91
ExceptClauses(outcome) ==
    IF outcome.raised = "" THEN outcome
    ELSE IF outcome.raised = "JSONDecodeError"
         THEN Recorded("errors", Msg("google-services.json is not valid JSON", ""))
         ELSE Recorded("warnings",
                       Msg("Could not validate google-services.json: {e}", ""))

validate_firebase_config ==
    /\ pc = "validate_firebase_config"
    /\ LET c == IF ~fs[google_services]
                THEN NoCredential(fs[google_services_template])
                ELSE ExceptClauses(TryValidate(credFile))
           found == IF fs[google_services]
                    THEN Append(info, Msg("google-services.json found", ""))
                    ELSE info
       IN  /\ info' = Record(found, c, "info")
           /\ warnings' = Record(warnings, c, "warnings")
           /\ errors' = Record(errors, c, "errors")
           /\ IF c.raised = ""
              THEN pc' = "validate_build_files" /\ UNCHANGED success
              ELSE pc' = "exit" /\ success' = "raised"
    /\ ran' = Append(ran, "validate_firebase_config")
    /\ UNCHANGED <<fs, envFile, credFile, success_rate, exit_code>>

(***************************************************************************)
(* The five presence checks.                                               *)
(***************************************************************************)
validate_build_files ==
    /\ pc = "validate_build_files"
    /\ info' = info \o FoundMsgs(fs, required_files)
    /\ errors' = errors \o MissingMsgs(fs, required_files,
                                       "Required build file missing: {file_path}")
    /\ ran' = Append(ran, "validate_build_files")
    /\ pc' = "validate_security_files"
    /\ UNCHANGED <<fs, envFile, credFile, warnings, success, success_rate,
                   exit_code>>

validate_security_files ==
    /\ pc = "validate_security_files"
    /\ info' = info \o FoundMsgs(fs, security_files)
    /\ warnings' = warnings \o MissingMsgs(fs, security_files,
                                           "Security file missing: {file_path}")
    /\ ran' = Append(ran, "validate_security_files")
    /\ pc' = "validate_source_files"
    /\ UNCHANGED <<fs, envFile, credFile, errors, success, success_rate,
                   exit_code>>

validate_source_files ==
    /\ pc = "validate_source_files"
    /\ info' = info \o FoundMsgs(fs, critical_files)
    /\ errors' = errors \o MissingMsgs(fs, critical_files,
                                       "Critical source file missing: {file_path}")
    /\ ran' = Append(ran, "validate_source_files")
    /\ pc' = "validate_documentation"
    /\ UNCHANGED <<fs, envFile, credFile, warnings, success, success_rate,
                   exit_code>>

validate_documentation ==
    /\ pc = "validate_documentation"
    /\ info' = info \o FoundMsgs(fs, doc_files)
    /\ warnings' = warnings \o MissingMsgs(fs, doc_files,
                                           "Documentation file missing: {file_path}")
    /\ ran' = Append(ran, "validate_documentation")
    /\ pc' = "validate_ci_cd"
    /\ UNCHANGED <<fs, envFile, credFile, errors, success, success_rate,
                   exit_code>>

validate_ci_cd ==
    /\ pc = "validate_ci_cd"
    /\ info' = info \o FoundMsgs(fs, ci_files)
    /\ warnings' = warnings \o MissingMsgs(fs, ci_files,
                                           "CI/CD file missing: {file_path}")
    /\ ran' = Append(ran, "validate_ci_cd")
    /\ pc' = "report"
    /\ UNCHANGED <<fs, envFile, credFile, errors, success, success_rate,
                   exit_code>>

(***************************************************************************)
(* The report and the result of validate_all.                              *)
(***************************************************************************)
\* print() writes to a UTF-8 standard output with the strict error handler:
\* a lone surrogate cannot be encoded and print raises UnicodeEncodeError.
Encodable(msg) == msg.arg # LoneSurrogate

\* success_rate as the format {:.1f} shows it, in tenths of a percent
\* (round half to even; the quotient is exact where a tie can occur).
Rate(passed, total_checks) ==
    IF total_checks > 0
    THEN LET q == (1000 * passed) \div total_checks
             twice == 2 * ((1000 * passed) % total_checks)
         IN  IF twice > total_checks \/ (twice = total_checks /\ q % 2 = 1)
             THEN q + 1 ELSE q
    ELSE 0

report ==
    /\ pc = "report"
    /\ IF \E i \in 1..Len(info \o warnings \o errors) :
              ~Encodable((info \o warnings \o errors)[i])
       THEN /\ success' = "raised"
            /\ UNCHANGED success_rate
       ELSE /\ success_rate' = Rate(Len(info),
                                    Len(info) + Len(warnings) + Len(errors))
            /\ success' = IF errors # <<>> THEN "False" ELSE "True"
    /\ pc' = "exit"
    /\ UNCHANGED <<fs, envFile, credFile, errors, warnings, info, ran,
                   exit_code>>

(***************************************************************************)
(* main: sys.exit(0 if success else 1); an exception that leaves main ends *)
(* the interpreter with status 1.                                          *)
(***************************************************************************)
main_exit ==
    /\ pc = "exit"
    /\ exit_code' = IF success = "True" THEN 0 ELSE 1
    /\ pc' = "done"
    /\ UNCHANGED <<fs, envFile, credFile, errors, warnings, info, ran,
                   success, success_rate>>

(***************************************************************************)
(* Project roots explored.                                                 *)
(***************************************************************************)
FileOf(text) == [readable |-> TRUE, text |-> text]

\* a path that cannot be opened or decoded (a directory, bytes that are not
\* UTF-8), and the content of a path that does not exist
NoText == [readable |-> FALSE, text |-> <<>>]

SeqsUpTo(alphabet, n) == UNION { [1..m -> alphabet] : m \in 0..n }

EnvAlphabet == {"API_BASE_URL_PROD", "MAPBOX_ACCESS_TOKEN_PROD",
                "FIREBASE_PROJECT_ID_PROD", "=", "#", " ", "\n",
                "placeholder", "your_placeholder_value", "demo-project"}

EnvValues == { <<>>, <<"placeholder">>, <<"demo-project">> }

EnvValuesPadded == { <<"placeholder">>, <<"your_placeholder_value">>,
                     <<"demo-project", "=", "placeholder">> }

EnvLines ==
    { <<required_vars[k], "=">> \o v \o <<"\n">> :
          k \in 1..Len(required_vars), v \in EnvValues }
    \cup { <<" ", required_vars[k], " ", "=", " ">> \o v \o <<" ", "\n">> :
          k \in 1..Len(required_vars), v \in EnvValuesPadded }
    \cup { <<"#", required_vars[1], "=", "demo-project", "\n">>,
           <<required_vars[2], "\n">> }

RECURSIVE Concat(_)
Concat(ss) == IF ss = <<>> THEN <<>> ELSE Head(ss) \o Concat(Tail(ss))

EnvTexts == SeqsUpTo(EnvAlphabet, MaxEnvTokens)
            \cup { Concat(ls) : ls \in SeqsUpTo(EnvLines, MaxEnvLines) }

GoodEnvText ==
    <<"API_BASE_URL_PROD", "=", "https://api.example", "\n",
      "MAPBOX_ACCESS_TOKEN_PROD", "=", "sk.token", "\n",
      "FIREBASE_PROJECT_ID_PROD", "=", "demo-project", "\n">>

EnvFiles == { FileOf(t) : t \in EnvTexts \cup {GoodEnvText} } \cup {NoText}

EnvFilesSmall ==
    { FileOf(GoodEnvText), NoText, FileOf(<<>>),
      FileOf(<<"API_BASE_URL_PROD", "=", "placeholder", "\n",
               "MAPBOX_ACCESS_TOKEN_PROD", "=", "sk.token">>) }

JsonAlphabet ==
    { P("{"), P("}"), P("["), P("]"), P(":"), P(","),
      S("project_info"), S("client"), S("project_id"), S(known_project_id),
      S("demo-project"), S(""), S(LoneSurrogate), S("project_info client"),
      N("0"), N("1"), L("null"), L("true") }

\* json.dumps, used to write the credential files of the explored roots
RECURSIVE Dump(_), DumpItems(_), DumpMembers(_)
Dump(v) ==
    CASE v.t = "str" -> <<S(v.s)>>
      [] v.t = "num" -> <<N(IF v.n = 0 THEN "0" ELSE "1")>>
      [] v.t = "null" -> <<L("null")>>
      [] v.t = "true" -> <<L("true")>>
      [] v.t = "arr" -> <<P("[")>> \o DumpItems(v.items) \o <<P("]")>>
      [] v.t = "obj" -> <<P("{")>> \o DumpMembers(v.members) \o <<P("}")>>

DumpItems(items) ==
    IF items = <<>> THEN <<>>
    ELSE IF Len(items) = 1 THEN Dump(items[1])
         ELSE Dump(items[1]) \o <<P(",")>> \o DumpItems(Tail(items))

DumpMembers(members) ==
    IF members = <<>> THEN <<>>
    ELSE LET m == <<S(members[1].key), P(":")>> \o Dump(members[1].val)
         IN  IF Len(members) = 1 THEN m
             ELSE m \o <<P(",")>> \o DumpMembers(Tail(members))

ProjectIds == { JStr("demo-project"), JStr(known_project_id), JStr(""),
                JStr(LoneSurrogate), JNum(0), JNum(1), JNull, JTrue,
                JArr(<<>>), JArr(<<JStr(LoneSurrogate)>>),
                JObj(<<Member("project_id", JStr(LoneSurrogate))>>) }

Credential(project_id) ==
    JObj(<<Member("project_info",
                  JObj(<<Member("project_id", project_id)>>)),
           Member("client", JArr(<<JObj(<<>>)>>))>>)

JsonDocs ==
    { Credential(id) : id \in ProjectIds }
    \cup { JObj(<<Member("project_info", v), Member("client", JArr(<<>>))>>) :
              v \in {JObj(<<>>), JArr(<<>>), JStr("project_id"), JNum(1), JNull} }
    \cup { JObj(<<>>),
           JObj(<<Member("project_info", JObj(<<>>))>>),
           JObj(<<Member("client", JArr(<<>>))>>),
           JArr(<<>>), JArr(<<JStr("project_info"), JStr("client")>>),
           JArr(<<JStr("client")>>),
           JStr("project_info client"), JStr("client"), JStr(""),
           JNum(0), JNum(1), JNull, JTrue }

RemoveAt(s, i) == SubSeq(s, 1, i - 1) \o SubSeq(s, i + 1, Len(s))

JsonTexts ==
    SeqsUpTo(JsonAlphabet, MaxJsonTokens)
    \cup { Dump(v) : v \in JsonDocs }
    \cup UNION { { RemoveAt(Dump(v), i) : i \in 1..Len(Dump(v)) } : v \in JsonDocs }
    \cup { <<P("{"), S("client"), P(":"), L("null"), P(","),
             S("project_info"), P(":"), N("1"), P(","),
             S("project_info"), P(":"), P("{"), P("}"), P("}")>> }

CredFiles == { FileOf(t) : t \in JsonTexts } \cup {NoText}

CredFilesSmall ==
    { FileOf(Dump(Credential(JStr("demo-project")))),
      FileOf(Dump(Credential(JStr(known_project_id)))),
      FileOf(Dump(Credential(JStr(LoneSurrogate)))),
      FileOf(Dump(JObj(<<>>))), FileOf(<<P("{")>>), NoText }

\* the listed paths: all but at most MaxMissing present, or all but at most
\* MaxMissing absent
ListedSubsets(n) == { X \in SUBSET ListedPaths :
                        Cardinality(X) <= n \/ Cardinality(ListedPaths \ X) <= n }

Exists(present) == [p \in AllPaths |-> p \in present]

EverythingPresent == Exists(AllPaths)

Constructed ==
    /\ pc = "validate_env_file"
    /\ errors = <<>>
    /\ warnings = <<>>
    /\ info = <<>>
    /\ ran = <<>>
    /\ success = "unset"
    /\ success_rate = -1
    /\ exit_code = -1

\* a file that does not exist has no content
Consistent ==
    /\ ~fs[env_file] => envFile = NoText
    /\ ~fs[google_services] => credFile = NoText

Init ==
    /\ Constructed
    /\ \/ /\ fs \in { Exists(X \cup C) : X \in ListedSubsets(MaxMissing),
                                         C \in SUBSET ConfigPaths }
          /\ envFile \in EnvFilesSmall
          /\ credFile \in CredFilesSmall
       \/ /\ fs = EverythingPresent
          /\ envFile \in EnvFiles
          /\ credFile \in { FileOf(Dump(Credential(JStr("demo-project")))) }
       \/ /\ fs = EverythingPresent
          /\ envFile \in { FileOf(GoodEnvText) }
          /\ credFile \in CredFiles
    /\ Consistent

\* the combinations of the listed paths within MaxAbsent paths of the full
\* and of the empty project, with and without the configuration files
InitFiles ==
    /\ Constructed
    /\ fs \in { Exists(X \cup C) : X \in ListedSubsets(MaxAbsent),
                                   C \in {ConfigPaths, {}} }
    /\ envFile = IF fs[env_file] THEN FileOf(GoodEnvText) ELSE NoText
    /\ credFile = IF fs[google_services]
                  THEN FileOf(Dump(Credential(JStr("demo-project"))))
                  ELSE NoText

Next ==
    \/ validate_env_file
    \/ validate_firebase_config
    \/ validate_build_files
    \/ validate_security_files
    \/ validate_source_files
    \/ validate_documentation
    \/ validate_ci_cd
    \/ report
    \/ main_exit

Spec == Init /\ [][Next]_vars

SpecFiles == InitFiles /\ [][Next]_vars

TypeOK ==
    /\ pc \in {"validate_env_file", "validate_firebase_config",
               "validate_build_files", "validate_security_files",
               "validate_source_files", "validate_documentation",
               "validate_ci_cd", "report", "exit", "done"}
    /\ success \in {"unset", "True", "False", "raised"}
    /\ exit_code \in {-1, 0, 1}

(***************************************************************************)
(* What the claims speak about.                                            *)
(***************************************************************************)
AllChecks == <<"validate_env_file", "validate_firebase_config",
               "validate_build_files", "validate_security_files",
               "validate_source_files", "validate_documentation",
               "validate_ci_cd">>

AfterEnvCheck == pc = "validate_firebase_config"

AfterCredentialCheck == pc = "validate_build_files"

AfterAllChecks == pc \in {"report", "exit", "done"}

CountArg(list, a) == Cardinality({ i \in 1..Len(list) : list[i].arg = a })

RequiredVars == Range(required_vars)

\* The KEY=VALUE format as the claims describe it: the lines of the file
\* that assign a variable, and the value of its last assignment.
AssignsVar(rawline, var) ==
    LET line == Strip(rawline)
        eq == FirstIndex(line, "=", 1)
    IN  /\ line # <<>>
        /\ Head(line) # "#"
        /\ eq # 0
        /\ Strip(SubSeq(line, 1, eq - 1)) = <<var>>

Assigning(text, var) ==
    { i \in 1..Len(FileLines(text)) : AssignsVar(FileLines(text)[i], var) }

FinalValue(text, var) ==
    LET last == CHOOSE i \in Assigning(text, var) :
                    \A j \in Assigning(text, var) : j <= i
        line == Strip(FileLines(text)[last])
    IN  Strip(SubSeq(line, FirstIndex(line, "=", 1) + 1, Len(line)))

Placeholders == { <<>>, <<"your_placeholder_value">>, <<"placeholder">> }

EnvFileRead == fs[env_file] /\ envFile.readable

CredentialParsed ==
    fs[google_services] /\ credFile.readable /\ JsonLoad(credFile.text).ok

CredentialValue == JsonLoad(credFile.text).val

InvalidJsonSyntax ==
    fs[google_services] /\ credFile.readable /\ ~JsonLoad(credFile.text).ok

MissingTopLevelKey ==
    /\ CredentialParsed
    /\ \/ CredentialValue.t # "obj"
       \/ ~HasKey(CredentialValue.members, "project_info")
       \/ ~HasKey(CredentialValue.members, "client")

\* C1: when the process has exited, its exit code is 1 if and only if at
\* least one error was recorded, and 0 whenever no error was recorded.
C1_ExitCodeIffErrors ==
    pc = "done" => /\ (exit_code = 1) <=> (errors # <<>>)
                   /\ errors = <<>> => exit_code = 0

\* C2: the seven checks run in their fixed order, whatever an earlier check
\* found; the report and the exit code come only after all seven, and no
\* exception of a check ends the run early.
C2_AllChecksRunInOrder ==
    /\ Len(ran) <= Len(AllChecks)
    /\ ran = SubSeq(AllChecks, 1, Len(ran))
    /\ AfterAllChecks => ran = AllChecks
    /\ success # "unset" => ran = AllChecks
    /\ exit_code # -1 => ran = AllChecks

C2_Witness ==
    /\ pc = "report"
    /\ ran = AllChecks
    /\ fs[env_file] /\ ~envFile.readable
    /\ InvalidJsonSyntax
    /\ ~fs["build.gradle"]

\* C3: with neither .env nor .env.template, the env check records exactly
\* one error, no warning and no info, and no message naming a required
\* variable.
C3_NeitherEnvNorTemplate ==
    (AfterEnvCheck /\ ~fs[env_file] /\ ~fs[env_template]) =>
        /\ Len(errors) = 1
        /\ errors[1].text = "Neither .env nor .env.template file found!"
        /\ warnings = <<>>
        /\ info = <<>>
        /\ \A var \in RequiredVars : CountArg(errors, var) = 0

C3_Witness ==
    /\ AfterEnvCheck /\ ~fs[env_file] /\ ~fs[env_template]
    /\ Len(errors) = 1

\* C4 as stated: for every required variable absent from a present env
\* file, the env check records exactly one warning naming it.
C4_AbsentVarOneWarning_Present ==
    (AfterEnvCheck /\ fs[env_file]) =>
        \A var \in RequiredVars :
            Assigning(envFile.text, var) = {} => CountArg(warnings, var) = 1

\* C4 amended: for every required variable absent from a present env file
\* that could be read, the env check records exactly one warning naming it.
C4_AbsentVarOneWarning ==
    (AfterEnvCheck /\ EnvFileRead) =>
        \A var \in RequiredVars :
            Assigning(envFile.text, var) = {} =>
                /\ CountArg(warnings, var) = 1
                /\ CountArg(errors, var) = 0

C4_Witness ==
    /\ AfterEnvCheck /\ EnvFileRead
    /\ Assigning(envFile.text, "API_BASE_URL_PROD") # {}
    /\ Assigning(envFile.text, "MAPBOX_ACCESS_TOKEN_PROD") = {}
    /\ Assigning(envFile.text, "FIREBASE_PROJECT_ID_PROD") = {}
    /\ Len(warnings) = 2

\* C5: for a present, readable env file and every required variable it
\* assigns, a warning naming the variable is recorded if and only if the
\* value of its last assignment, trimmed, is "", "your_placeholder_value"
\* or "placeholder".
C5_PlaceholderWarningIff ==
    (AfterEnvCheck /\ EnvFileRead) =>
        \A var \in RequiredVars :
            Assigning(envFile.text, var) # {} =>
                /\ CountArg(warnings, var) =
                       IF FinalValue(envFile.text, var) \in Placeholders
                       THEN 1 ELSE 0
                /\ CountArg(errors, var) = 0

C5_Witness ==
    /\ AfterEnvCheck /\ EnvFileRead
    /\ \E var \in RequiredVars :
          /\ Cardinality(Assigning(envFile.text, var)) = 2
          /\ FinalValue(envFile.text, var) = <<"placeholder">>
          /\ \E i \in 1..Len(envFile.text) : envFile.text[i] = " "
          /\ CountArg(warnings, var) = 1

\* C6: for a credential file with invalid JSON syntax, the credential check
\* records exactly one error and no warning, and nothing else but the info
\* that the file was found.
C6_InvalidJsonOneError ==
    [][(pc = "validate_firebase_config" /\ InvalidJsonSyntax) =>
          /\ errors' = Append(errors,
                              Msg("google-services.json is not valid JSON", ""))
          /\ warnings' = warnings
          /\ info' = Append(info, Msg("google-services.json found", ""))]_vars

C6_Witness ==
    /\ AfterCredentialCheck /\ InvalidJsonSyntax
    /\ Len(credFile.text) > MaxJsonTokens
    /\ errors # <<>>
    /\ errors[Len(errors)].text = "google-services.json is not valid JSON"

\* C7: for a credential file holding valid JSON without the top-level key
\* project_info or without the top-level key client (an object lacking one,
\* or a value that is not an object), the credential check records exactly
\* one warning and no error.
C7_MissingKeysOneWarning ==
    [][(pc = "validate_firebase_config" /\ MissingTopLevelKey) =>
          /\ Len(warnings') = Len(warnings) + 1
          /\ SubSeq(warnings', 1, Len(warnings)) = warnings
          /\ errors' = errors]_vars

C7_Witness ==
    /\ AfterCredentialCheck /\ MissingTopLevelKey
    /\ CredentialValue = JArr(<<JStr("project_info"), JStr("client")>>)
    /\ warnings # <<>>
    /\ warnings[Len(warnings)].text
           = "Could not validate google-services.json: {e}"

\* The scenario of C8: every path present, all three required variables
\* assigned a value that is no placeholder, and a credential file that is a
\* JSON object with project_info and client and a project id.
EveryFilePresent == \A p \in AllPaths : fs[p]

RequiredVarsSet ==
    /\ EnvFileRead
    /\ \A var \in RequiredVars :
          /\ Assigning(envFile.text, var) # {}
          /\ FinalValue(envFile.text, var) \notin Placeholders

HasProjectId ==
    /\ CredentialParsed
    /\ CredentialValue.t = "obj"
    /\ HasKey(CredentialValue.members, "project_info")
    /\ HasKey(CredentialValue.members, "client")
    /\ GetKey(CredentialValue.members, "project_info").t = "obj"
    /\ HasKey(GetKey(CredentialValue.members, "project_info").members,
              "project_id")

ProjectId ==
    GetKey(GetKey(CredentialValue.members, "project_info").members,
           "project_id")

CleanRun ==
    /\ warnings = <<>>
    /\ errors = <<>>
    /\ info # <<>>
    /\ exit_code = 0
    /\ success_rate = 1000

\* C8 as stated: in the scenario with the project id equal to the known
\* value, the run records no warning and no error, exits with 0 and reports
\* 100.0%.
C8_KnownProjectIdClean ==
    (pc = "done" /\ EveryFilePresent /\ RequiredVarsSet /\ HasProjectId
       /\ ProjectId = JStr(known_project_id)) => CleanRun

\* C8 amended: in the scenario with a project id that is a non-empty
\* printable string other than the known default value, the run records no
\* warning and no error, exits with 0 and reports 100.0%.
C8_OtherProjectIdClean ==
    (pc = "done" /\ EveryFilePresent /\ RequiredVarsSet /\ HasProjectId
       /\ ProjectId.t = "str"
       /\ ProjectId.s \notin {"", known_project_id, LoneSurrogate})
    => CleanRun

C8_Witness ==
    /\ pc = "done" /\ EveryFilePresent /\ RequiredVarsSet /\ HasProjectId
    /\ ProjectId = JStr("demo-project")
    /\ Len(info) = 21
    /\ exit_code = 0

\* C9: in an empty project directory the env check records one error, the
\* credential check one warning, every presence check only the missing-file
\* messages of its severity, no info is recorded, and the exit code is 1.
MissingAll(paths, text) == [i \in 1..Len(paths) |-> Msg(text, paths[i])]

C9_EmptyDirectory ==
    (pc = "done" /\ \A p \in AllPaths : ~fs[p]) =>
        /\ errors = <<Msg("Neither .env nor .env.template file found!", "")>>
              \o MissingAll(required_files,
                            "Required build file missing: {file_path}")
              \o MissingAll(critical_files,
                            "Critical source file missing: {file_path}")
        /\ warnings = <<Msg("No Firebase configuration found!", "")>>
              \o MissingAll(security_files, "Security file missing: {file_path}")
              \o MissingAll(doc_files, "Documentation file missing: {file_path}")
              \o MissingAll(ci_files, "CI/CD file missing: {file_path}")
        /\ info = <<>>
        /\ exit_code = 1

C9_Witness ==
    /\ pc = "done"
    /\ \A p \in AllPaths : ~fs[p]
    /\ Len(errors) = 10 /\ Len(warnings) = 9

\* C10: every listed path has exactly one message: an info if it exists,
\* else an error for a build or source path and a warning for a security,
\* documentation or CI path; the presence checks record 17 messages.
ErrorPaths == Range(required_files) \cup Range(critical_files)

Sum3(p) == CountArg(info, p) + CountArg(warnings, p) + CountArg(errors, p)

C10_OneMessagePerPath ==
    AfterAllChecks =>
        /\ Cardinality(ListedPaths) = 17
        /\ \A p \in ListedPaths :
              /\ Sum3(p) = 1
              /\ CountArg(info, p) = IF fs[p] THEN 1 ELSE 0
              /\ CountArg(errors, p) =
                     IF ~fs[p] /\ p \in ErrorPaths THEN 1 ELSE 0
              /\ CountArg(warnings, p) =
                     IF ~fs[p] /\ p \notin ErrorPaths THEN 1 ELSE 0
        /\ Cardinality({ i \in 1..Len(info) : info[i].arg \in ListedPaths })
           + Cardinality({ i \in 1..Len(warnings) :
                             warnings[i].arg \in ListedPaths })
           + Cardinality({ i \in 1..Len(errors) :
                             errors[i].arg \in ListedPaths }) = 17

C10_Witness ==
    /\ pc = "done"
    /\ ~fs["build.gradle"] /\ fs["app/build.gradle"]
    /\ ~fs["app/proguard-rules.pro"] /\ fs["README.md"]
    /\ ~fs["AalayApplication.kt"] /\ fs["di/NetworkModule.kt"]
    /\ Len(info) + Len(warnings) + Len(errors) = 21

====
